---- MODULE Spec2Model ----
(***************************************************************************)
(* littlebot (src/littlebot.py): a scheduler thread (RepeatingThread.run)  *)
(* that spawns one request worker (request_address) per interval until a   *)
(* stop condition, then drains the in-flight workers and reports; a probe  *)
(* gate (repeat_request) in front of it; and the main loop, which may set  *)
(* the stop event on Ctrl+C.                                               *)
(*                                                                         *)
(* Time is a discrete clock `now`. The fields of the RepeatingThread keep  *)
(* their names. The worker threads are anonymous in the source (the        *)
(* scheduler keeps no handle on them), so they are kept as a bag: the       *)
(* number of copies of s in workers is the number of worker threads in     *)
(* local state s = <<position in request_address, value read>>.            *)
(* `x += 1` on a shared attribute is a read followed by a write (two       *)
(* bytecodes, no lock in the source), so each is two steps with the value  *)
(* read held in the worker's local state.                                  *)
(*                                                                         *)
(* self.stopped is a threading.Event: a flag, a lock around it and the      *)
(* waiter of a thread blocked in wait(). set() takes the lock, stores the  *)
(* flag, wakes the waiter and gives the lock back; wait() takes the lock,   *)
(* reads the flag, and if it is clear blocks on its waiter up to the       *)
(* timeout, then takes the lock again to return. Only the main thread      *)
(* receives KeyboardInterrupt; one raised while it is inside set() ends    *)
(* the call where it is.                                                   *)
(***************************************************************************)
EXTENDS Integers, FiniteSets, Sequences, Bags

\* ---------------------------------------------------------------- bounds
\* The clock runs 0..MaxTime.
MaxTime == 3
\* At most MaxSpawn workers are spawned when max_number is inf.
MaxSpawn == 3
\* The end-to-end scenario of the specification: max_number = 5, interval = 1.
E2ENumber == 5
\* (T)ry again is followed MaxRetries calls deep. (The interpreter ends the
\* chain with a RecursionError only about a thousand calls deep.)
MaxRetries == 2

\* ------------------------------------------------------------- constants
\* max_number is a float (argparse type=float, default float('inf')); the
\* model holds it in half units, the attempt counter being compared with it in
\* the same units: Halves(n) is the float n.
Halves(n) == 2 * n
\* float('inf'), in half units: a count the bounded runs never reach.
Inf == 1000
\* None: an argument that was not given; also a field not yet set.
None == -9
\* dt.timedelta(days=1), in clock ticks: midnights are the multiples of DayLen.
\* A day is longer than the runs followed: the clock stops before the first
\* midnight after the program's start.
DayLen == 6

Intervals == {1, 2}
\* start_time: the moment the program starts (the default, dt.datetime.now()),
\* a past moment (what -s gives: strptime without a year is in 1900), and a
\* future moment (a caller of repeat_request or of the class).
StartTimes == {1 - DayLen, 0, 2}
\* -1.0, 0.0, 1.0, 2.0 and inf.
MaxNumbers == {Halves(0 - 1), Halves(0), Halves(1), Halves(2), Inf}
\* An explicit finish_time is a moment of the run; without one the job ends at
\* midnight, which the clock does not reach: "far in the future".
FinishArgs == {None} \cup (0..2)
MaxTimeArgs == {None, 0, 1}
Outcomes == {"ok200", "http_error", "net_error"}

VARIABLES
    now,            \* dt.datetime.now()
    args,           \* the arguments of repeat_request, until their last use
    gate,           \* repeat_request's locals req (the probe's result) and
                    \* answer, until their last use
    depth,          \* the calls of repeat_request inside the first one ((T)ry
                    \* again is a recursive call), until the thread is started
    mainpc,         \* where the main thread is
    pc,             \* where RepeatingThread.run is
    interval,       \* self.interval
    max_number,     \* self.max_number
    start_time,     \* self.start_time
    finish_time,    \* self.finish_time
    stopped,        \* self.stopped: the Event's flag
    notified,       \* self.stopped: set() has woken the waiter of the pending wait()
    lock,           \* self.stopped: who holds the Event's lock
    number,         \* self.number
    successes,      \* self.successes
    threads_alive,  \* self.threads_alive
    deadline,       \* when the pending stopped.wait(interval) times out
    workers,        \* multiset of worker threads by local state
    recorded,       \* history: workers that have stored successes + 1
    tally,          \* history: increments and decrements of threads_alive
                    \* performed by workers, and status-200 responses received
    handed,         \* history: the `number` argument given to each worker thread
    started_early,  \* history: run() began before start_time
    summary         \* history: <<successes, number>> as logged by run(), if logged

vars == <<now, args, gate, depth, mainpc, pc, interval, max_number, start_time,
          finish_time, stopped, notified, lock, number, successes,
          threads_alive, deadline,
          workers, recorded, tally, handed, started_early, summary>>

schedVars == <<pc, interval, max_number, start_time, finish_time, number,
               deadline, handed, started_early, summary>>
workerVars == <<successes, threads_alive, workers, recorded, tally>>
mainVars == <<args, gate, depth, mainpc>>
condVars == <<notified, lock>>
eventVars == <<stopped, notified, lock>>

\* ---------------------------------------------------------- worker states
\* The most workers a run of the model spawns.
MaxWorkers == IF MaxSpawn > E2ENumber THEN MaxSpawn ELSE E2ENumber

\* The workers at the positions ps of request_address.
At(ps) == BagCardinality([s \in {x \in BagToSet(workers) : x[1] \in ps}
                             |-> CopiesIn(s, workers)])

\* The workers between their increment and their decrement of threads_alive.
InFlight == At({"req", "suc_r", "suc_w", "dec_r", "dec_w"})
\* The workers that have returned from request_address.
Finished == CopiesIn(<<"done", 0>>, workers)
\* The worker threads started so far.
Spawned == BagCardinality(workers)

\* Some worker is in local state s.
Some(s) == BagIn(s, workers)
\* thread.start(): one more worker, at the top of request_address.
Started == workers (+) SetToBag({<<"inc_r", 0>>})
\* One worker goes from local state s to local state t.
Move(s, t) == (workers (-) SetToBag({s})) (+) SetToBag({t})

\* ------------------------------------------------------------------ Init
NoArgs == [interval |-> None, start_time |-> None, finish_time |-> None,
           max_time |-> None, max_number |-> None]

\* req and answer before the probe, and once they are no longer read.
NoGate == [req |-> "unset", answer |-> "unset"]

Init ==
    /\ now = 0
    /\ args \in [interval : Intervals, start_time : StartTimes,
                 finish_time : FinishArgs, max_time : MaxTimeArgs,
                 max_number : MaxNumbers]
    /\ gate = NoGate
    /\ depth = 0
    /\ mainpc = "probe"
    /\ pc = "unborn"
    /\ interval = None
    /\ max_number = None
    /\ start_time = None
    /\ finish_time = None
    /\ stopped = FALSE
    /\ notified = FALSE
    /\ lock = "free"
    /\ number = 0
    /\ successes = 0
    /\ threads_alive = 0
    /\ deadline = None
    /\ workers = EmptyBag
    /\ recorded = 0
    /\ tally = [incs |-> 0, decs |-> 0, oks |-> 0]
    /\ handed = <<>>
    /\ started_early = FALSE
    /\ summary = <<>>

\* ----------------------------------------------------------------- clock
\* The clock is read by run() up to the end of its spawn loop (lines 66-72), and
\* decides started_early when the thread is started; it is advanced while it
\* can still be read. Time that passes in the loop body (lines 73-78) is time
\* that passes before the next test of the loop condition.
ClockRead ==
    \/ pc \in {"start", "loop", "enter", "wait"}
    \/ pc = "unborn" /\ mainpc \in {"probe", "ask_tca", "ask_yn", "construct", "built"}

TickUpTo(horizon) ==
    /\ now < horizon
    /\ ClockRead
    /\ now' = now + 1
    /\ UNCHANGED <<schedVars, workerVars, mainVars, eventVars>>

Tick == TickUpTo(MaxTime)

\* -------------------------------------------------------- repeat_request
\* A faulty variant of ProbeReturns: the status of the response is not tested.
ProbeReturnsIgnoresStatus(outs) ==
    /\ mainpc = "probe"
    /\ \E out \in outs :
          /\ mainpc' = IF out = "net_error" THEN "ask_tca" ELSE "construct"
          /\ gate' = [gate EXCEPT !.req = IF out = "net_error" THEN @ ELSE out]
    /\ UNCHANGED <<now, args, depth, schedVars, workerVars, eventVars>>

\* urlopen of the probe returns (req is the response) or raises, with one of
\* `outs`; then the test of req.status.
ProbeReturns(outs) ==
    /\ mainpc = "probe"
    /\ \E out \in outs :
          /\ mainpc' = CASE out = "ok200" -> "construct"
                         [] out = "http_error" -> "ask_yn"
                         [] out = "net_error" -> "ask_tca"
          /\ gate' = [gate EXCEPT !.req = IF out = "net_error" THEN @ ELSE out]
    /\ UNCHANGED <<now, args, depth, schedVars, workerVars, eventVars>>

Probe == ProbeReturns(Outcomes)

\* (T)ry again, (C)ontinue anyway or (A)bort; any other answer asks again.
\* (C) sets req = None; (T) is the recursive call of lines 139-141, one call
\* deeper and with fresh locals.
AnswerTCA ==
    /\ mainpc = "ask_tca"
    /\ \E answer \in {"t", "c", "a", "x"} :
          /\ answer = "t" => depth < MaxRetries
          /\ depth' = IF answer = "t" THEN depth + 1 ELSE depth
          /\ mainpc' = CASE answer = "c" -> "construct"
                         [] answer = "a" -> "aborted"
                         [] answer = "t" -> "probe"
                         [] OTHER -> "ask_tca"
          /\ gate' = CASE answer = "c" -> [req |-> "none", answer |-> "c"]
                       [] answer = "t" -> NoGate
                       [] OTHER -> [gate EXCEPT !.answer = answer]
    /\ UNCHANGED <<now, args, schedVars, workerVars, eventVars>>

\* Continue anyway (Y/N); any other answer asks again.
AnswerYN ==
    /\ mainpc = "ask_yn"
    /\ \E answer \in {"y", "n", "x"} :
          /\ mainpc' = CASE answer = "y" -> "construct"
                         [] answer = "n" -> "aborted"
                         [] OTHER -> "ask_yn"
          /\ gate' = [gate EXCEPT !.answer = answer]
    /\ UNCHANGED <<now, args, depth, schedVars, workerVars, eventVars>>

\* ------------------------------------------------ RepeatingThread.__init__
\* A faulty variant of Midnight: the midnight that begins the day.
MidnightOfSameDay(t) == (t \div DayLen) * DayLen

\* start_time.replace(hour=0, ...) + dt.timedelta(days=1)
Midnight(t) == (t \div DayLen) * DayLen + DayLen

\* A timedelta is falsy when it is zero; a datetime is never falsy.
ResolveFinish(start, finish, max_time) ==
    IF max_time # None /\ max_time # 0
    THEN start + max_time
    ELSE IF finish # None THEN finish ELSE Midnight(start)

\* A faulty variant of Rejected: a finish_time equal to start_time is refused.
RejectedWhenEqual(finish, start) == finish <= start

\* if self.finish_time < self.start_time: raise ValueError
Rejected(finish, start) == finish < start

\* littlebot = RepeatingThread(...): __init__ sets the fields or raises
\* ValueError, which nothing catches: the program ends there.
Construct ==
    /\ mainpc = "construct"
    /\ LET f == ResolveFinish(args.start_time, args.finish_time, args.max_time)
       IN IF Rejected(f, args.start_time)
          THEN /\ mainpc' = "crashed"
               /\ UNCHANGED <<interval, max_number, start_time, finish_time>>
          ELSE /\ mainpc' = "built"
               /\ interval' = args.interval
               /\ max_number' = args.max_number
               /\ start_time' = args.start_time
               /\ finish_time' = f
    /\ UNCHANGED <<pc, number, deadline, handed, started_early, summary>>
    /\ UNCHANGED <<now, args, gate, depth, workerVars, eventVars>>

\* littlebot.start(): the scheduler thread runs from here on, with the main
\* thread still inside repeat_request; its arguments and locals are not read
\* again.
StartThread ==
    /\ mainpc = "built"
    /\ mainpc' = "started"
    /\ pc' = "start"
    /\ started_early' = (now < start_time)
    /\ args' = NoArgs
    /\ gate' = NoGate
    /\ depth' = 0
    /\ UNCHANGED <<interval, max_number, start_time, finish_time, number,
                   deadline, handed, summary>>
    /\ UNCHANGED <<now, workerVars, eventVars>>

\* ------------------------------------------------------------- __main__
\* return littlebot; logging.info(...); the try block is entered.
MainReturn ==
    /\ mainpc = "started"
    /\ mainpc' = "watch"
    /\ UNCHANGED <<now, args, gate, depth, schedVars, workerVars, eventVars>>

\* The main thread's positions that the try block of lines 225-227 does not
\* cover: the lines before it, and the body of its own handler (lines 229-230,
\* the call of set() included).
OutsideTry == {"probe", "ask_tca", "ask_yn", "construct", "built", "started",
               "handler", "notify", "release"}

\* What becomes of the Event's lock when KeyboardInterrupt ends the main thread
\* at position p. Inside set() the `with self._cond:` gives the lock back as
\* the exception leaves its body, but not when an exception is raised inside
\* Condition.__enter__ (the lock just taken) or inside Condition.__exit__
\* (the lock not yet given back, on the normal way out or while the first
\* exception leaves the body): then the lock stays held for ever.
LockAfterCut(p) ==
    IF p \in {"handler", "notify", "release"} THEN {"free", "main"} ELSE {lock}

\* Ctrl+C outside the try block (a second one, in the handler, included):
\* KeyboardInterrupt ends the main thread where it is; a scheduler thread
\* already started runs on. A set() under way is cut: before the flag is
\* stored, after it and before the waiter is woken, or after both.
UncaughtInterrupt ==
    /\ mainpc \in OutsideTry
    /\ mainpc' = "killed"
    /\ lock' \in LockAfterCut(mainpc)
    /\ UNCHANGED <<now, args, gate, depth, schedVars, workerVars, stopped, notified>>

\* while not littlebot.stopped.is_set(): time.sleep(0.5)
\* (is_set() reads the flag without the lock.)
MainPoll ==
    /\ mainpc = "watch"
    /\ stopped
    /\ mainpc' = "exit"
    /\ UNCHANGED <<now, args, gate, depth, schedVars, workerVars, eventVars>>

\* Ctrl+C in the poll loop: except KeyboardInterrupt catches it and the
\* handler logs its warning (line 229); the flag is not set yet.
KeyboardInterrupt ==
    /\ mainpc = "watch"
    /\ mainpc' = "handler"
    /\ UNCHANGED <<now, args, gate, depth, schedVars, workerVars, eventVars>>

\* littlebot.stopped.set() (line 230), up to self._flag = True: the Event's
\* lock is taken and the flag stored.
InterruptSetFlag ==
    /\ mainpc = "handler"
    /\ lock = "free"
    /\ lock' = "main"
    /\ stopped' = TRUE
    /\ mainpc' = "notify"
    /\ UNCHANGED <<now, args, gate, depth, schedVars, workerVars, notified>>

\* littlebot.stopped.set(), self._cond.notify_all(): the waiter of a scheduler
\* blocked in wait() is woken; one that has timed out already, or a scheduler
\* that is not in wait(), is not affected.
InterruptNotify ==
    /\ mainpc = "notify"
    /\ notified' = (pc = "wait")
    /\ mainpc' = "release"
    /\ UNCHANGED <<now, args, gate, depth, schedVars, workerVars, stopped, lock>>

\* littlebot.stopped.set(), the end of `with self._cond:`: the lock is given
\* back; the handler and the program's text end here.
InterruptRelease ==
    /\ mainpc = "release"
    /\ lock' = "free"
    /\ mainpc' = "interrupted"
    /\ UNCHANGED <<now, args, gate, depth, schedVars, workerVars, stopped, notified>>

\* ---------------------------------------------------- RepeatingThread.run
\* bool(self.stopped): a threading.Event defines neither __bool__ nor __len__.
EventTruthy == TRUE

\* while not self.stopped and not now >= self.start_time: time.sleep(1)
RunStartWait ==
    /\ pc = "start"
    /\ IF ~EventTruthy /\ ~(now >= start_time)
       THEN pc' = "start"
       ELSE pc' = "loop"
    /\ UNCHANGED <<interval, max_number, start_time, finish_time, handed, number,
                   deadline, started_early, summary>>
    /\ UNCHANGED <<now, mainVars, workerVars, eventVars>>

\* A faulty variant of LoopEnds: the count test is off by one (number > max_number).
LoopEndsCountOffByOne ==
    now >= finish_time \/ Halves(number) > max_number

\* A faulty variant of LoopEnds: the time test is off by one (now > finish_time).
LoopEndsTimeOffByOne ==
    now > finish_time \/ Halves(number) >= max_number

\* now >= self.finish_time or self.number >= self.max_number
LoopEnds == now >= finish_time \/ Halves(number) >= max_number

\* A faulty variant of RunLoopCheck: the scheduler sets the flag as soon as
\* the loop ends, before the drain.
RunLoopCheckSetsFlag ==
    /\ pc = "loop"
    /\ IF LoopEnds
       THEN /\ pc' = "drain"
            /\ stopped' = TRUE
       ELSE /\ pc' = "enter"
            /\ UNCHANGED stopped
    /\ UNCHANGED <<interval, max_number, start_time, finish_time, handed, number,
                   deadline, started_early, summary>>
    /\ UNCHANGED <<now, mainVars, workerVars, condVars>>

\* The loop condition up to the call of self.stopped.wait(self.interval).
RunLoopCheck ==
    /\ pc = "loop"
    /\ IF LoopEnds
       THEN pc' = "drain"
       ELSE pc' = "enter"
    /\ UNCHANGED <<interval, max_number, start_time, finish_time, handed, number,
                   deadline, started_early, summary>>
    /\ UNCHANGED <<now, mainVars, workerVars, eventVars>>

\* stopped.wait(interval), its entry: the Event's lock is taken and the flag
\* read. Set: the call returns True at once and the loop ends. Clear: the
\* waiter is put in place, the lock given back and the timed wait begins.
RunWaitEnter ==
    /\ pc = "enter"
    /\ lock = "free"
    /\ IF stopped
       THEN /\ pc' = "drain"
            /\ UNCHANGED deadline
       ELSE /\ pc' = "wait"
            /\ deadline' = now + interval
    /\ UNCHANGED <<interval, max_number, start_time, finish_time, handed, number,
                   started_early, summary>>
    /\ UNCHANGED <<now, mainVars, workerVars, eventVars>>

\* A faulty variant of RunWaitStopped: the tick that ends the loop is counted as an attempt.
RunWaitStoppedCountsTick ==
    /\ pc = "wait"
    /\ notified
    /\ lock = "free"
    /\ pc' = "drain"
    /\ number' = number + 1
    /\ deadline' = None
    /\ notified' = FALSE
    /\ UNCHANGED <<interval, max_number, start_time, finish_time, handed,
                   started_early, summary>>
    /\ UNCHANGED <<now, mainVars, workerVars, stopped, lock>>

\* stopped.wait() returns True: set() woke the waiter before its timeout; the
\* lock is taken again on the way out; the loop ends.
RunWaitStopped ==
    /\ pc = "wait"
    /\ notified
    /\ lock = "free"
    /\ pc' = "drain"
    /\ UNCHANGED number
    /\ deadline' = None
    /\ notified' = FALSE
    /\ UNCHANGED <<interval, max_number, start_time, finish_time, handed,
                   started_early, summary>>
    /\ UNCHANGED <<now, mainVars, workerVars, stopped, lock>>

\* A faulty variant of WaitTimedOut: a plain sleep, which no set() ends early.
WaitTimedOutPlainSleep == now >= deadline

\* The waiter inside stopped.wait() gives up: the timeout has passed and no
\* set() has woken it (the flag itself is not read here).
WaitTimedOut == ~notified /\ now >= deadline

\* Inside stopped.wait(): the timed acquire of the waiter returns False. The
\* call has not returned yet, and the flag is not read again on the way out.
\* With max_number = inf the model follows the loop for MaxSpawn ticks.
RunWaitTimedOut ==
    /\ pc = "wait"
    /\ WaitTimedOut
    /\ max_number = Inf => number < MaxSpawn
    /\ pc' = "timedout"
    /\ deadline' = None
    /\ notified' = FALSE
    /\ UNCHANGED <<interval, max_number, start_time, finish_time, handed, number,
                   started_early, summary>>
    /\ UNCHANGED <<now, mainVars, workerVars, stopped, lock>>

\* stopped.wait() takes the lock again and returns False, whatever the flag
\* is by now: the loop condition is false and the body is entered.
RunWaitReturn ==
    /\ pc = "timedout"
    /\ lock = "free"
    /\ pc' = "incr"
    /\ UNCHANGED <<interval, max_number, start_time, finish_time, handed, number,
                   deadline, started_early, summary>>
    /\ UNCHANGED <<now, mainVars, workerVars, eventVars>>

\* self.number += 1 (only this thread writes number).
RunIncrement ==
    /\ pc = "incr"
    /\ number' = number + 1
    /\ pc' = "spawn"
    /\ UNCHANGED <<interval, max_number, start_time, finish_time, handed,
                   deadline, started_early, summary>>
    /\ UNCHANGED <<now, mainVars, workerVars, eventVars>>

\* A faulty variant of AttemptArg: the counter as it was before the increment.
AttemptArgStale == number - 1

\* args=(self.address, self.number, self), evaluated after self.number += 1
AttemptArg == number

\* threading.Thread(target=request_address, args=...); thread.start()
RunSpawn ==
    /\ pc = "spawn"
    /\ handed' = Append(handed, AttemptArg)
    /\ workers' = Started
    /\ pc' = "loop"
    /\ UNCHANGED <<interval, max_number, start_time, finish_time, number,
                   deadline, started_early, summary>>
    /\ UNCHANGED <<now, mainVars, successes, threads_alive, recorded, tally,
                   eventVars>>

\* A faulty variant of RunDrain: with workers still alive the scheduler goes
\* back to the spawn loop.
RunDrainResumes ==
    /\ pc = "drain"
    /\ IF threads_alive # 0
       THEN pc' = "loop"
       ELSE pc' = "report"
    /\ UNCHANGED <<interval, max_number, start_time, finish_time, handed, number,
                   deadline, started_early, summary>>
    /\ UNCHANGED <<now, mainVars, workerVars, eventVars>>

\* while self.threads_alive: time.sleep(0.1)
RunDrain ==
    /\ pc = "drain"
    /\ IF threads_alive # 0
       THEN pc' = "drain"
       ELSE pc' = "report"
    /\ UNCHANGED <<interval, max_number, start_time, finish_time, handed, number,
                   deadline, started_early, summary>>
    /\ UNCHANGED <<now, mainVars, workerVars, eventVars>>

\* if self.number: logging.info('Made ... successful requests out of ...')
RunReport ==
    /\ pc = "report"
    /\ summary' = IF number # 0 THEN <<successes, number>> ELSE <<>>
    /\ pc' = "set"
    /\ UNCHANGED <<interval, max_number, start_time, finish_time, handed, number,
                   deadline, started_early>>
    /\ UNCHANGED <<now, mainVars, workerVars, eventVars>>

\* self.stopped.set(): the last statement of run(). It needs the Event's lock;
\* no thread is waiting on the Event by then.
RunSetFlag ==
    /\ pc = "set"
    /\ lock = "free"
    /\ stopped' = TRUE
    /\ pc' = "done"
    /\ UNCHANGED <<interval, max_number, start_time, finish_time, handed, number,
                   deadline, started_early, summary>>
    /\ UNCHANGED <<now, mainVars, workerVars, condVars>>

\* ------------------------------------------------------- request_address
\* master.threads_alive += 1: the read
ReqIncRead ==
    /\ Some(<<"inc_r", 0>>)
    /\ workers' = Move(<<"inc_r", 0>>, <<"inc_w", threads_alive>>)
    /\ UNCHANGED <<now, mainVars, schedVars, eventVars, successes,
                   threads_alive, recorded, tally>>

\* master.threads_alive += 1: the write
ReqIncWrite ==
    /\ \E s \in BagToSet(workers) :
          /\ s[1] = "inc_w"
          /\ threads_alive' = s[2] + 1
          /\ workers' = Move(s, <<"req", 0>>)
    /\ tally' = [tally EXCEPT !.incs = @ + 1]
    /\ UNCHANGED <<now, mainVars, schedVars, eventVars, successes, recorded>>

\* A faulty variant of AfterRequest: the except branch returns without the
\* decrement.
AfterRequestNoDecrementOnError(out) ==
    CASE out = "ok200" -> <<"suc_r", 0>>
      [] out = "http_error" -> <<"dec_r", 0>>
      [] out = "net_error" -> <<"done", 0>>

\* Where request_address goes after urlopen, by outcome.
AfterRequest(out) == IF out = "ok200" THEN <<"suc_r", 0>> ELSE <<"dec_r", 0>>

\* A faulty variant of RespondWith: a failed request stops the schedule.
RespondWithFailureStops(outs) ==
    /\ Some(<<"req", 0>>)
    /\ \E out \in outs :
          /\ workers' = Move(<<"req", 0>>, AfterRequest(out))
          /\ tally' = [tally EXCEPT !.oks = IF out = "ok200" THEN @ + 1 ELSE @]
          /\ stopped' = IF out = "ok200" THEN stopped ELSE TRUE
    /\ UNCHANGED <<now, mainVars, schedVars, condVars, successes,
                   threads_alive, recorded>>

\* urlopen returns (status 200 or another) or raises, with one of `outs`.
RespondWith(outs) ==
    /\ Some(<<"req", 0>>)
    /\ \E out \in outs :
          /\ workers' = Move(<<"req", 0>>, AfterRequest(out))
          /\ tally' = [tally EXCEPT !.oks = IF out = "ok200" THEN @ + 1 ELSE @]
    /\ UNCHANGED <<now, mainVars, schedVars, eventVars, successes,
                   threads_alive, recorded>>

ReqRespond == RespondWith(Outcomes)

\* master.successes += 1: the read
ReqSuccRead ==
    /\ Some(<<"suc_r", 0>>)
    /\ workers' = Move(<<"suc_r", 0>>, <<"suc_w", successes>>)
    /\ UNCHANGED <<now, mainVars, schedVars, eventVars, successes,
                   threads_alive, recorded, tally>>

\* master.successes += 1: the write
ReqSuccWrite ==
    /\ \E s \in BagToSet(workers) :
          /\ s[1] = "suc_w"
          /\ successes' = s[2] + 1
          /\ workers' = Move(s, <<"dec_r", 0>>)
    /\ recorded' = recorded + 1
    /\ UNCHANGED <<now, mainVars, schedVars, eventVars, threads_alive, tally>>

\* master.threads_alive -= 1: the read
ReqDecRead ==
    /\ Some(<<"dec_r", 0>>)
    /\ workers' = Move(<<"dec_r", 0>>, <<"dec_w", threads_alive>>)
    /\ UNCHANGED <<now, mainVars, schedVars, eventVars, successes,
                   threads_alive, recorded, tally>>

\* master.threads_alive -= 1: the write; request_address returns
ReqDecWrite ==
    /\ \E s \in BagToSet(workers) :
          /\ s[1] = "dec_w"
          /\ threads_alive' = s[2] - 1
          /\ workers' = Move(s, <<"done", 0>>)
    /\ tally' = [tally EXCEPT !.decs = @ + 1]
    /\ UNCHANGED <<now, mainVars, schedVars, eventVars, successes, recorded>>

\* ------------------------------------------------------------------ Next
Next ==
    \/ Tick
    \/ Probe
    \/ AnswerTCA
    \/ AnswerYN
    \/ Construct
    \/ StartThread
    \/ MainReturn
    \/ UncaughtInterrupt
    \/ MainPoll
    \/ KeyboardInterrupt
    \/ InterruptSetFlag
    \/ InterruptNotify
    \/ InterruptRelease
    \/ RunStartWait
    \/ RunLoopCheck
    \/ RunWaitEnter
    \/ RunWaitStopped
    \/ RunWaitTimedOut
    \/ RunWaitReturn
    \/ RunIncrement
    \/ RunSpawn
    \/ RunDrain
    \/ RunReport
    \/ RunSetFlag
    \/ ReqIncRead
    \/ ReqIncWrite
    \/ ReqRespond
    \/ ReqSuccRead
    \/ ReqSuccWrite
    \/ ReqDecRead
    \/ ReqDecWrite

Spec == Init /\ [][Next]_vars

\* ------------------------------------------------- the end-to-end scenario
\* The probe and every request return status 200, interval = 1, max_number =
\* E2ENumber, finish_time beyond the scenario's clock, no interrupt.
E2EMaxTime == E2ENumber

InitE2E ==
    /\ now = 0
    /\ args = [interval |-> 1, start_time |-> 0, finish_time |-> E2EMaxTime + 1,
               max_time |-> None, max_number |-> Halves(E2ENumber)]
    /\ gate = NoGate
    /\ depth = 0
    /\ mainpc = "probe"
    /\ pc = "unborn"
    /\ interval = None
    /\ max_number = None
    /\ start_time = None
    /\ finish_time = None
    /\ stopped = FALSE
    /\ notified = FALSE
    /\ lock = "free"
    /\ number = 0
    /\ successes = 0
    /\ threads_alive = 0
    /\ deadline = None
    /\ workers = EmptyBag
    /\ recorded = 0
    /\ tally = [incs |-> 0, decs |-> 0, oks |-> 0]
    /\ handed = <<>>
    /\ started_early = FALSE
    /\ summary = <<>>

TickE2E == TickUpTo(E2EMaxTime)
ProbeE2E == ProbeReturns({"ok200"})
ReqRespondE2E == RespondWith({"ok200"})

NextE2E ==
    \/ TickE2E
    \/ ProbeE2E
    \/ Construct
    \/ StartThread
    \/ MainReturn
    \/ MainPoll
    \/ RunStartWait
    \/ RunLoopCheck
    \/ RunWaitEnter
    \/ RunWaitTimedOut
    \/ RunWaitReturn
    \/ RunIncrement
    \/ RunSpawn
    \/ RunDrain
    \/ RunReport
    \/ RunSetFlag
    \/ ReqIncRead
    \/ ReqIncWrite
    \/ ReqRespondE2E
    \/ ReqSuccRead
    \/ ReqSuccWrite
    \/ ReqDecRead
    \/ ReqDecWrite

SpecE2E == InitE2E /\ [][NextE2E]_vars

\* ================================================================ claims
PastDrain == pc \in {"report", "set", "done"}
LeftLoop == pc \in {"drain", "report", "set", "done"}
\* run() is inside the call stopped.wait(self.interval) of line 71.
InWait == pc \in {"enter", "wait", "timedout"}
Interrupted == mainpc = "interrupted"
\* No Ctrl+C has reached the main thread since the scheduler was started.
NoInterrupt == mainpc \in {"started", "watch", "exit"}
FinishIsFar == finish_time > MaxTime

\* C1: the scheduler passes the drain step (reports, marks the job finished)
\* only when every worker it spawned has returned from request_address.
C1_ReportAfterAllWorkers == PastDrain => Finished = Spawned

\* C2: with a finite whole max_number N >= 0 the attempt counter never exceeds
\* N (an (N+1)-th worker is never spawned), and with a far finish_time and no
\* interrupt the loop is left with exactly N attempts.
C2_ExactlyMaxNumber ==
    (pc # "unborn" /\ max_number \in {Halves(n) : n \in 0..MaxWorkers}) =>
        /\ Halves(number) <= max_number
        /\ Halves(Spawned) <= max_number
        /\ (LeftLoop /\ FinishIsFar /\ NoInterrupt) => Halves(number) = max_number

\* max_number = 2, far finish_time, no interrupt: run() has finished with two
\* workers spawned and returned.
C2_Witness ==
    /\ pc = "done" /\ max_number = Halves(2) /\ FinishIsFar /\ NoInterrupt
    /\ number = 2 /\ Spawned = 2 /\ Finished = 2

\* The scheduler's way from an interval wait to the end of run().
CancelRank ==
    CASE pc = "wait" -> 1
      [] pc = "timedout" -> 2
      [] pc = "incr" -> 3
      [] pc = "spawn" -> 4
      [] pc = "loop" -> 5
      [] pc = "enter" -> 6
      [] pc = "drain" -> 7
      [] pc = "report" -> 8
      [] pc = "set" -> 9
      [] pc = "done" -> 10
      [] OTHER -> 0

\* C3 as stated: once the flag is set the attempt counter never increases, and
\* a scheduler inside its interval wait with the flag set stays there or goes
\* to the drain.
C3_CancelStopsSpawning ==
    [][stopped =>
          /\ number' = number
          /\ InWait => (InWait' \/ pc' = "drain")]_vars

\* C3, amended: once the flag is set the scheduler begins no further interval
\* wait and spawns at most one further worker. If set() woke the waiter before
\* the wait timed out, the wait can end at once, whatever the deadline (as
\* soon as set() has given the lock back), and ends only towards the drain,
\* with the attempt counter unchanged. If the wait timed out before it was
\* woken (the timeout fell just before the wake-up, or set() was cut between
\* storing the flag and waking the waiter), the call returns False and the
\* worker of that tick is spawned: the counter increases only there, by one,
\* and the scheduler, which only moves on from there, reads the flag at the
\* entry of the next wait and goes to the drain.
C3_AtMostOneLateSpawn ==
    [][stopped =>
          /\ CancelRank' >= CancelRank
          /\ number' # number => (pc = "incr" /\ number' = number + 1)
          /\ (pc = "wait" /\ notified) =>
                /\ pc' \in {"wait", "drain"}
                /\ number' = number
                /\ lock = "free" => ENABLED RunWaitStopped
          /\ pc = "enter" => pc' \in {"enter", "drain"}
          /\ (mainpc = "killed" /\ lock = "main") =>
                /\ lock' = "main"
                /\ InWait => (InWait' /\ number' = number)]_vars

\* set() ran to its end while the scheduler was in its interval wait, before
\* the timeout: the waiter is woken and the wait about to end early.
C3_Witness ==
    /\ pc = "wait" /\ stopped /\ notified /\ Interrupted
    /\ now < deadline /\ number > 0

\* set() was cut after it stored the flag and before it woke the waiter: the
\* wait has run to its timeout with the flag set, and the call is about to
\* return False and the counter to go from 0 to 1.
C3_LateSpawn ==
    /\ pc = "timedout" /\ stopped /\ ~notified /\ lock = "free"
    /\ mainpc = "killed" /\ number = 0

\* set() was cut before it gave the lock back: the scheduler, woken, cannot
\* take the lock to return from wait() and never reaches the drain.
C3_NeverDrains ==
    /\ pc = "wait" /\ stopped /\ notified /\ lock = "main"
    /\ mainpc = "killed"

\* C4: no worker has been spawned while the clock is before start_time and no
\* cancellation was requested.
C4_WaitsForStartTime ==
    (pc # "unborn" /\ ~stopped /\ now < start_time) => number = 0

\* C5: a worker is never spawned when the clock is at or after finish_time.
C5_NoSpawnAtOrAfterFinish ==
    [][number' > number => now < finish_time]_vars

\* C6: a run that began at or after start_time with finish_time = start_time +
\* 2 * interval makes at most 2 attempts (whatever max_number is, cancelled or
\* not; in particular with max_number unbounded and no cancellation).
C6_AtMostTwoAttempts ==
    (pc # "unborn" /\ ~started_early /\ finish_time = start_time + 2 * interval)
        => number <= 2

C6_Witness ==
    /\ pc = "done" /\ max_number = Inf /\ ~Interrupted /\ ~started_early
    /\ finish_time = start_time + 2 * interval
    /\ number = 2

\* C7: in the end-to-end scenario the job ends (run() finished, every worker
\* returned) with exactly E2ENumber attempts, as many successes, and an
\* in-flight count of 0.
C7_EndToEnd ==
    (pc = "done" /\ Finished = Spawned) =>
        /\ number = E2ENumber
        /\ successes = E2ENumber
        /\ threads_alive = 0

\* C8: threads_alive is the number of workers between their increment and
\* their decrement, and successes is the number of workers that recorded a
\* status 200.
C8_CountersExact == threads_alive = InFlight /\ successes = recorded

\* C9: once every spawned worker has returned, the drain loop can end: a
\* scheduler in the drain with all workers finished reads threads_alive = 0.
\* (Nothing writes threads_alive after the last worker returned, so a nonzero
\* value there keeps run() in the drain loop for ever.)
C9_DrainCanEnd == (pc = "drain" /\ Finished = Spawned) => threads_alive = 0

\* C10 as stated: in every state successes never exceeds the attempt counter,
\* and the attempt counter is the number of workers spawned.
C10_AttemptsAreSpawns == successes <= number /\ number = Spawned

\* C10, amended: successes never exceeds the attempt counter; the attempt
\* counter is the number of workers spawned, except between the increment
\* and thread.start() of one tick (lines 73-78), where it is one more; a tick
\* whose check ends the loop leaves it unchanged.
C10_AttemptsAreSpawnsOutsideBody ==
    /\ successes <= number
    /\ number = Spawned + (IF pc = "spawn" THEN 1 ELSE 0)

C10_Witness ==
    /\ pc = "done" /\ Interrupted
    /\ number = 2 /\ successes = 2 /\ Spawned = 2

\* The workers that have performed their increment of threads_alive.
PastIncrement == At({"req", "suc_r", "suc_w", "dec_r", "dec_w", "done"})
\* The workers between the status-200 test and their write of successes.
Recording == At({"suc_r", "suc_w"})

\* C11: every worker past line 94 has incremented threads_alive exactly once,
\* every worker that returned has incremented and decremented it exactly once
\* and none that has not returned has decremented it; successes is written
\* once by each worker that received status 200, and by no other worker.
C11_OneIncOneDecPerWorker ==
    /\ tally.incs = PastIncrement
    /\ tally.decs = Finished
    /\ recorded + Recording = tally.oks
    /\ recorded <= tally.oks

\* Three workers have returned: one received status 200, the others failed.
C11_Witness ==
    /\ Finished = 3 /\ Spawned = 3
    /\ tally.oks = 1 /\ recorded = 1
    /\ tally.incs = 3 /\ tally.decs = 3

\* The probe returned status 200, or the operator answered (C)ontinue or (Y)es.
GateOpen == gate.req = "ok200" \/ gate.answer \in {"c", "y"}
\* The positions of the main thread in repeat_request before littlebot.start().
InGate == mainpc \in {"probe", "ask_tca", "ask_yn", "construct", "built"}

C12_GateState ==
    /\ mainpc \in {"construct", "built"} => GateOpen
    /\ pc = "unborn" => number = 0 /\ Spawned = 0
    /\ mainpc = "aborted" => pc = "unborn" /\ gate.answer \in {"a", "n"}
    /\ pc # "unborn" => ~InGate

\* C12: the scheduler thread is started (and so any worker spawned) only with
\* the gate open: after a probe with status 200 or the operator's choice to
\* continue; after an abort no scheduler exists and the attempt counter is 0;
\* (T)ry again goes back to the probe with fresh locals and no scheduler; and
\* once a scheduler is started the main thread never re-enters the gate, so at
\* most one is started.
C12_GateBeforeSchedule ==
    [][/\ C12_GateState'
       /\ (pc = "unborn" /\ pc' # "unborn") => (GateOpen /\ mainpc = "built")
       /\ (mainpc = "ask_tca" /\ mainpc' \notin {"ask_tca", "construct", "aborted", "killed"})
            => (mainpc' = "probe" /\ gate' = NoGate /\ pc' = "unborn")
       /\ pc # "unborn" => pc' # "unborn"]_vars

\* The probe returned a non-200 status and the operator answered (Y)es: the
\* thread object is built and about to be started, no attempt made yet.
C12_Witness ==
    /\ mainpc = "built" /\ gate.req = "http_error" /\ gate.answer = "y"
    /\ pc = "unborn" /\ number = 0

\* The finish_time that __init__ computes from the arguments of repeat_request.
Resolved == ResolveFinish(args.start_time, args.finish_time, args.max_time)

\* C13: a constructed job has finish_time >= start_time; construction fails
\* exactly for the configurations whose resolved finish_time is earlier than
\* start_time (an equal one is accepted), and after the failure no scheduler
\* thread exists and no worker was spawned.
C13_FinishNotBeforeStart ==
    /\ (mainpc = "built" \/ pc # "unborn") => finish_time >= start_time
    /\ mainpc = "built" =>
          /\ finish_time = Resolved /\ start_time = args.start_time
          /\ Resolved >= args.start_time
    /\ mainpc = "crashed" =>
          /\ Resolved < args.start_time
          /\ pc = "unborn" /\ number = 0 /\ Spawned = 0

\* Construction has failed for an explicit finish_time before start_time.
C13_Witness ==
    /\ mainpc = "crashed" /\ pc = "unborn"
    /\ args.max_time = None /\ args.finish_time # None
    /\ args.finish_time < args.start_time

\* A job constructed with finish_time equal to start_time has run to its end.
C13_EqualAccepted == pc = "done" /\ finish_time = start_time

\* C14: whenever max_time is given, zero included, and whether or not an
\* explicit finish_time is given too, the constructed job has finish_time =
\* start_time + max_time.
C14_MaxTimeOverrides ==
    (mainpc = "built" /\ args.max_time # None) =>
        finish_time = args.start_time + args.max_time

\* A step of some worker: the bag of workers changes and no thread was started.
WorkerStep == workers' # workers /\ Spawned' = Spawned

\* C15: no step of a worker, whatever the outcome of its request, sets the
\* cancellation flag or changes the attempt counter, the scheduler's position,
\* its wait deadline or anything else the spawn loop reads; the loop's
\* conditions (lines 68-72) read only these, so the spawns do not depend on
\* the outcomes of earlier attempts.
C15_FailuresDoNotStopSchedule ==
    [][WorkerStep => UNCHANGED <<eventVars, now, schedVars, mainVars>>]_vars

\* Two attempts have failed (no status 200 was received), the flag is not set
\* and the scheduler has just spawned the third worker.
C15_Witness ==
    /\ Finished = 2 /\ tally.oks = 0
    /\ number = 3 /\ pc = "loop" /\ Some(<<"inc_r", 0>>)
    /\ ~stopped

\* C16: a job constructed with neither finish_time nor max_time has as
\* finish_time the first day boundary strictly after start_time: a multiple of
\* the day length, later than start_time by at most one day.
C16_DefaultFinishIsMidnight ==
    (mainpc = "built" /\ args.finish_time = None /\ args.max_time = None) =>
        /\ finish_time % DayLen = 0
        /\ start_time < finish_time
        /\ finish_time <= start_time + DayLen

\* Such a job with start_time in the middle of its day.
C16_Witness ==
    /\ mainpc = "built" /\ args.finish_time = None /\ args.max_time = None
    /\ start_time % DayLen # 0
    /\ finish_time = start_time - (start_time % DayLen) + DayLen

\* C17: the scheduler spawns before it waits: whenever it is in the interval
\* wait (stopped.wait(self.interval)) at least one worker has been spawned, so
\* the first worker is spawned with no interval wait before it.
C17_SpawnThenWait == pc = "wait" => number >= 1

\* The job's lifecycle, as a rank: 1 the probe and its prompts, 2 aborted, or
\* the gate passed (the job being constructed), 3 the scheduler thread
\* started, 4 the spawn loop, 5 the drain and the report, 6 run() finished.
Phase ==
    CASE mainpc = "aborted" -> 2
      [] mainpc # "aborted" /\ pc = "unborn" ->
            IF mainpc \in {"probe", "ask_tca", "ask_yn"} THEN 1 ELSE 2
      [] pc = "start" -> 3
      [] pc \in {"loop", "enter", "wait", "timedout", "incr", "spawn"} -> 4
      [] pc \in {"drain", "report", "set"} -> 5
      [] pc = "done" -> 6

\* C18: the lifecycle never goes back; from the drain on no worker is spawned;
\* an aborted job takes no step at all, and after run() finished no field of
\* the scheduler changes and the flag stays set.
C18_LifecycleForwardOnly ==
    [][/\ Phase' >= Phase
       /\ LeftLoop => (number' = number /\ Spawned' = Spawned)
       /\ mainpc # "aborted"
       /\ pc = "done" => (UNCHANGED schedVars /\ stopped /\ stopped')]_vars

\* The whole lifecycle was passed: run() finished after three attempts and the
\* main thread saw the flag and left.
C18_Witness ==
    /\ pc = "done" /\ mainpc = "exit" /\ number = 3 /\ Finished = 3

\* A job aborted by the operator.
C18_Aborted == mainpc = "aborted" /\ pc = "unborn"

\* C19: the k-th worker thread is given attempt number k: the numbers handed
\* out so far are 1, 2, ... in order, one per worker thread, without
\* duplicate or gap, and they are 1..number whenever run() is not between
\* its increment and the thread.start() of the same tick.
C19_SequentialNumbers ==
    /\ Len(handed) = Spawned
    /\ \A k \in 1..Len(handed) : handed[k] = k
    /\ pc # "spawn" => Len(handed) = number
    /\ pc = "spawn" => Len(handed) = number - 1

\* Three workers were spawned, numbered 1, 2, 3.
C19_Witness == handed = <<1, 2, 3>> /\ number = 3 /\ Spawned = 3

\* C20: the flag is never cleared (whatever becomes of the thread that set
\* it); it is set only by the main thread inside the set() of its
\* KeyboardInterrupt handler or by the step that ends run(), after the drain
\* and the report; no step of a worker changes it; once run() has finished it
\* is set.
C20_FlagMonotone ==
    [][/\ stopped => stopped'
       /\ (~stopped /\ stopped') =>
             \/ mainpc = "handler" /\ mainpc' = "notify" /\ pc' = pc
             \/ pc = "set" /\ pc' = "done" /\ mainpc' = mainpc
       /\ WorkerStep => stopped' = stopped
       /\ pc' = "done" => stopped']_vars

\* The main thread was killed inside set() after it had stored the flag: the
\* flag is set, the main thread gone, and run() has not finished.
C20_KilledInSet == mainpc = "killed" /\ stopped /\ pc = "loop"

\* run() has ended by itself and set the flag: no interrupt happened, and the
\* main thread has not polled the flag yet.
C20_Witness ==
    /\ pc = "done" /\ stopped /\ mainpc = "watch"
    /\ number = 2 /\ Finished = 2

====
